---- MODULE Spec2Model ----
(***************************************************************************)
(* Model of the spring-petals scene: the GPU resource loader (gl.ts), the  *)
(* four FX layers and the scene orchestrator (scene.ts).                   *)
(*                                                                         *)
(* The host is the browser's event loop: image events, window resize       *)
(* events and animation-frame callbacks are macrotasks, promise reactions  *)
(* are microtasks that are drained before the next macrotask runs.         *)
(***************************************************************************)
EXTENDS Integers, Sequences, FiniteSets, TLC

VARIABLES
  promise,        \* state of every promise: "pending" | "fulfilled" | "rejected"
  remaining,      \* Promise.all: elements still awaited, per aggregate
  mq,             \* microtask queue (promise reaction jobs), FIFO
  windLayers,     \* flying-layers.ts `layers`
  pulseLayer,     \* pulse-mask.ts `layer` (FALSE models null)
  particleGroups, \* petal-particles `particleGroups` (number of batches)
  loopStarted,    \* the scene's then-callback has run
  rafPending,     \* animation callbacks requested and not yet delivered
  clock,          \* timestamp (ms) of the latest animation callback
  lastFrameTime,  \* scene.ts `lastFrameTime`
  prevFrameTime,  \* history: timestamp of the accepted frame before the last
  framesAccepted, \* history: accepted frames so far, saturating at 2
  frameOps,       \* history: calls made by the latest render invocation, in order
  renderRan,      \* history: render has been invoked at least once
  drawsInvoked,   \* history: the layer draw entry points invoked so far
  gpuDraws,       \* history: the layers that have issued a GPU draw call
  loaded,         \* loadTexture: the value each promise resolved with (<<>>: none)
  allValues,      \* Promise.all: the values array of each aggregate, by source promise
  windDrawn,      \* the textures the latest wind draw rendered, in order
  glProgram,      \* the program in use on the context ("none" before any draw)
  setupAnswers,   \* initScene: whether each fallible setup step succeeds
  performed,      \* initScene: the setup steps that completed, in order
  initError,      \* initScene: the error it threw ("" when it returned)
  displayW,       \* canvas.getBoundingClientRect().width, in half CSS pixels
  displayH,       \* canvas.getBoundingClientRect().height, in half CSS pixels
  dpr,            \* window.devicePixelRatio in quarters; 0 models unset/zero
  canvasW,        \* canvas.width
  canvasH,        \* canvas.height
  preW,           \* history: canvas.width before the latest resizeCanvas call
  preH,           \* history: canvas.height before the latest resizeCanvas call
  wroteCanvas,    \* history: the latest resizeCanvas call assigned the dimensions
  sinceResize,    \* history: resizeCanvas ran and the layout has not changed since
  fogFlow,        \* fog-layer `flow`
  fogUniforms,    \* uniforms uploaded by the latest fog draw (NoUniforms before)
  uRects,         \* wind shader uniforms uRects/uRectFeather, first uRectCount entries
  uAmp,           \* wind shader uniform uAmp
  uFreq,          \* wind shader uniform uFreq
  fragUv,         \* the fragment's vUv, in eighths of the texture
  timeQ,          \* uTime * uSpeed (x, y), in quarter turns
  shaded,         \* the wind fragment shader has run on fragUv
  fragOffset,     \* the shader's accumulated `offset`, in MaskScale-ths
  sampleUv,       \* the coordinate the texture is sampled at, in MaskScale-ths of an eighth
  aInstanceSpeed, \* petal instance attribute aInstanceSpeed, in ProgressScale-ths per second
  aInstanceSeed,  \* petal instance attribute aInstanceSeed, in ProgressScale-ths
  particleTime,   \* the particle shader's uTime (s) at its latest run
  progress,       \* the vertex shader's `progress` at its latest run, in ProgressScale-ths
  prevTime,       \* history: uTime of the run before the latest
  prevProgress,   \* history: `progress` of the run before the latest
  particleRuns,   \* history: runs of the vertex shader so far, saturating at 2
  glLive,         \* GPU objects created by createProgram calls and not deleted: <<call, object>>
  programCalls,   \* createProgram calls made so far
  lastCall,       \* the latest createProgram call: the context's answers, GL calls, error
  sprite,         \* a wind sprite (flying-layers.ts Layer); <<>> models an absent field
  uRectCount      \* wind shader uniform uRectCount as last uploaded (<<>>: never)

sceneVars == <<promise, remaining, mq, windLayers, pulseLayer, particleGroups,
               loopStarted, rafPending, clock, lastFrameTime, prevFrameTime,
               framesAccepted, frameOps, renderRan, drawsInvoked, gpuDraws,
               loaded, allValues, windDrawn, glProgram,
               setupAnswers, performed, initError>>
loaderVars == <<loaded, allValues>>
gpuVars == <<windDrawn, glProgram>>
setupVars == <<setupAnswers, performed, initError>>
canvasVars == <<displayW, displayH, dpr, canvasW, canvasH, preW, preH,
                wroteCanvas, sinceResize>>
fogVars == <<fogFlow, fogUniforms>>

shaderVars == <<uRects, uAmp, uFreq, fragUv, timeQ, shaded, fragOffset, sampleUv>>

particleVars == <<aInstanceSpeed, aInstanceSeed, particleTime, progress,
                  prevTime, prevProgress, particleRuns>>

\* The state of the helpers that the scene's own steps never touch.
glVars == <<glLive, programCalls, lastCall>>

rectVars == <<sprite, uRectCount>>

helperVars == <<particleVars, glVars, rectVars>>

vars == <<sceneVars, canvasVars, fogVars, shaderVars, helperVars>>

(***************************************************************************)
(* Bounds of the model.                                                    *)
(***************************************************************************)
\* Animation callbacks are delivered with timestamps up to MaxNow ms.
MaxNow == 130
\* A setFlow patch provides at most MaxPatchFields fields.
MaxPatchFields == 2
\* The wind shader is run on sprites of up to MaxShaderRects rects.
MaxShaderRects == 3
\* The particle shader is run at times up to MaxParticleTime seconds.
MaxParticleTime == 30
\* createProgram is called up to MaxProgramCalls times on one context.
MaxProgramCalls == 2
\* A sprite is authored with up to MaxAuthoredRects rects.
MaxAuthoredRects == 9

(***************************************************************************)
(* gl.ts loadTexture and the promise graph built by the layers and by      *)
(* initScene.                                                              *)
(***************************************************************************)
\* The nine image loads: four wind sprites, the pulse mask, four petals.
WindTextures == <<"bridge", "flying-1", "flying-2", "leaves">>
PulseTextures == <<"pulse_mask">>
SakuraTextures == <<"petal-1", "petal-2", "petal-3", "petal-4">>

Range(s) == {s[i] : i \in DOMAIN s}

Textures == Range(WindTextures) \cup Range(PulseTextures) \cup Range(SakuraTextures)

\* Promise.all([windLayer.ready, pulseMaskLayer.ready, sakuraLayer.ready])
\* (faulty variant: the particle layer's readiness is left out)
SceneReadyInputs_Partial == <<"windReady", "pulseReady">>
SceneReadyInputs == <<"windReady", "pulseReady", "sakuraReady">>

Aggregates == {"windAll", "sakuraAll", "sceneAll"}
Derived == {"windReady", "pulseReady", "sakuraReady", "sceneThen"}
Promises == Textures \cup Aggregates \cup Derived

\* The promises a Promise.all aggregate waits for.
AllInputs(a) ==
  CASE a = "windAll" -> WindTextures
    [] a = "sakuraAll" -> SakuraTextures
    [] a = "sceneAll" -> SceneReadyInputs

\* The promise a .then() promise is derived from.
ThenSource(d) ==
  CASE d = "windReady" -> "windAll"
    [] d = "pulseReady" -> "pulse_mask"
    [] d = "sakuraReady" -> "sakuraAll"
    [] d = "sceneThen" -> "sceneAll"

\* A promise reaction job; index is the element's position for Promise.all.
Job(kind, target, outcome, index) ==
  [kind |-> kind, target |-> target, outcome |-> outcome, index |-> index]

IndexOf(p, inputs) == CHOOSE i \in DOMAIN inputs : inputs[i] = p

(***************************************************************************)
(* scene.ts initScene: the setup steps, in program order.                  *)
(***************************************************************************)
\* (faulty variant: the resize listener is registered first)
SetupSteps_ListenerFirst ==
  <<"addEventListener", "querySelector", "canvas", "getContext",
    "createWindLayer", "createFogLayer", "createPulseMaskLayer", "createSakuraLayer",
    "Promise.all">>
SetupSteps ==
  <<"querySelector", "canvas", "getContext",
    "createWindLayer", "createFogLayer", "createPulseMaskLayer", "createSakuraLayer",
    "Promise.all", "addEventListener">>

\* The steps that can fail: a query that finds nothing, no WebGL2 context, a
\* layer constructor that throws (shader compile or link, buffer allocation).
FallibleSteps ==
  {"querySelector", "canvas", "getContext",
   "createWindLayer", "createFogLayer", "createPulseMaskLayer", "createSakuraLayer"}
LayerSteps ==
  {"createWindLayer", "createFogLayer", "createPulseMaskLayer", "createSakuraLayer"}

SetupAnswers == [FallibleSteps -> BOOLEAN]
AllOk == [step \in FallibleSteps |-> TRUE]

StepError(step) ==
  CASE step = "querySelector" -> "Missing root element"
    [] step = "canvas" -> "Missing canvas"
    [] step = "getContext" -> "WebGL2 not supported"
    [] OTHER -> "layer constructor error"

\* initScene runs its steps in order and throws at the first one that fails.
RECURSIVE RunSteps(_, _, _)
RunSteps(steps, answers, done) ==
  IF steps = <<>> THEN [performed |-> done, error |-> ""]
  ELSE IF Head(steps) \in DOMAIN answers /\ ~answers[Head(steps)]
    THEN [performed |-> done, error |-> StepError(Head(steps))]
    ELSE RunSteps(Tail(steps), answers, Append(done, Head(steps)))

InitSceneRun(answers) == RunSteps(SetupSteps, answers, <<>>)

Performed(step) == step \in Range(performed)

\* The image loads a layer's constructor starts.
LayerTextures(step) ==
  CASE step = "createWindLayer" -> Range(WindTextures)
    [] step = "createPulseMaskLayer" -> Range(PulseTextures)
    [] step = "createSakuraLayer" -> Range(SakuraTextures)
    [] OTHER -> {}
StartedLoads == UNION {LayerTextures(step) : step \in Range(performed) \cap LayerSteps}

\* Whether the aggregate has been created: the scene's exists once initScene
\* reaches scene.ts:43.
Registered(a) == a = "sceneAll" => Performed("Promise.all")

\* The reaction jobs queued when promise p settles with outcome o, in the
\* order the reactions were registered.
SetToSeq(S) ==
  LET RECURSIVE Build(_)
      Build(T) == IF T = {} THEN <<>>
                  ELSE LET x == CHOOSE y \in T : TRUE IN <<x>> \o Build(T \ {x})
  IN Build(S)

Reactions(p, o) ==
  SetToSeq({Job("elem", a, o, IndexOf(p, AllInputs(a))) :
              a \in {b \in Aggregates : p \in Range(AllInputs(b)) /\ Registered(b)}}
           \cup {Job("then", d, o, 0) : d \in {e \in Derived : ThenSource(e) = p}})

\* Promise.all stores an element's value at the element's index.
\* (faulty variant: values are stored in order of completion)
StoreElement_Push(values, index, src) ==
  LET k == CHOOSE i \in DOMAIN values : values[i] = "" /\ \A j \in 1..(i - 1) : values[j] # ""
  IN [values EXCEPT ![k] = src]
StoreElement(values, index, src) == [values EXCEPT ![index] = src]

\* Promise.all: an element that fulfils counts towards completion, one that
\* rejects rejects the aggregate.
\* (faulty variant: Promise.allSettled, where a rejection counts as well)
ElementCounts_AllSettled(o) == TRUE
ElementCounts(o) == o = "fulfilled"

\* Settling promise p with outcome o: a promise settles at most once, and its
\* reactions are queued as microtasks when it does.
SettleP(pr, p, o) == IF pr[p] = "pending" THEN [pr EXCEPT ![p] = o] ELSE pr
SettleQ(pr, q, p, o) == IF pr[p] = "pending" THEN q \o Reactions(p, o) ELSE q

(***************************************************************************)
(* scene.ts: frame pacing and the render callback.                         *)
(***************************************************************************)
TargetFps == 24

\* minFrameTime > 0 && now - lastFrameTime < minFrameTime, with
\* minFrameTime = targetFps ? 1000 / targetFps : 0 (both sides times targetFps).
\* (faulty variant: the interval is one ms short)
TooEarly_OffByFrame(now, last) == TargetFps > 0 /\ TargetFps * (now - last) < 1000 - TargetFps
TooEarly(now, last) == TargetFps > 0 /\ TargetFps * (now - last) < 1000

\* The calls of a skipped invocation of render (scene.ts:48-51).
\* (faulty variant: a skipped invocation returns without rescheduling)
SkippedFrameOps_NoReschedule == <<>>
\* (faulty variant: a skipped invocation records its timestamp)
SkippedFrameOps_Postponing == <<"lastFrameTime", "requestAnimationFrame">>
SkippedFrameOps == <<"requestAnimationFrame">>

\* The calls of an accepted invocation of render, in program order (scene.ts:52-66).
\* (faulty variant: the order of the comment at scene.ts:60, wind first)
AcceptedFrameOps_WindFirst ==
  <<"lastFrameTime", "resizeCanvas", "viewport", "clearColor", "clear",
    "windLayer.draw", "fogLayer.draw", "pulseMaskLayer.draw", "sakuraLayer.draw",
    "requestAnimationFrame">>
AcceptedFrameOps ==
  <<"lastFrameTime", "resizeCanvas", "viewport", "clearColor", "clear",
    "pulseMaskLayer.draw", "fogLayer.draw", "windLayer.draw", "sakuraLayer.draw",
    "requestAnimationFrame">>

RenderOps(now, last) == IF TooEarly(now, last) THEN SkippedFrameOps ELSE AcceptedFrameOps

Count(x, s) == Cardinality({i \in DOMAIN s : s[i] = x})

LayerDraws == {"pulseMaskLayer.draw", "fogLayer.draw", "windLayer.draw", "sakuraLayer.draw"}

\* The layers whose draw needs textures.
TexturedDraws == {"pulseMaskLayer.draw", "windLayer.draw", "sakuraLayer.draw"}

\* The constructor behind each draw entry point.
LayerStep(op) ==
  CASE op = "pulseMaskLayer.draw" -> "createPulseMaskLayer"
    [] op = "fogLayer.draw" -> "createFogLayer"
    [] op = "windLayer.draw" -> "createWindLayer"
    [] op = "sakuraLayer.draw" -> "createSakuraLayer"

\* Each layer's draw returns early while its resources are missing.
\* (faulty variant: no draw checks its resources)
DrawGuard_Unguarded(op) == TRUE
DrawGuard(op) ==
  CASE op = "pulseMaskLayer.draw" -> pulseLayer
    [] op = "fogLayer.draw" -> TRUE
    [] op = "windLayer.draw" -> Len(windLayers) # 0
    [] op = "sakuraLayer.draw" -> particleGroups # 0

\* gl.useProgram: the program in use after the draws among ops have run.
RECURSIVE ProgramAfter(_, _)
ProgramAfter(ops, program) ==
  IF ops = <<>> THEN program
  ELSE ProgramAfter(Tail(ops),
                    IF Head(ops) \in LayerDraws /\ DrawGuard(Head(ops))
                      THEN Head(ops) ELSE program)

\* The textures a wind draw renders: layers.forEach, in array order.
WindDrawOrder(layers) == [i \in 1..Len(layers) |-> layers[i]]

(***************************************************************************)
(* scene.ts resizeCanvas.                                                  *)
(***************************************************************************)
Min(a, b) == IF a < b THEN a ELSE b
Max(a, b) == IF a > b THEN a ELSE b

\* Math.min(window.devicePixelRatio || 1, 2), in quarters.
\* (faulty variant: the ratio is not capped)
EffectiveDpr_Uncapped(d) == IF d = 0 THEN 4 ELSE d
EffectiveDpr(d) == Min(IF d = 0 THEN 4 ELSE d, 8)

\* Math.round of the non-negative rational num / den: floor(x + 1/2).
MathRound(num, den) == (2 * num + den) \div (2 * den)

\* Math.max(1, Math.round(size * dpr)); size in half pixels, dpr in quarters.
TargetSize(size, d) == Max(1, MathRound(size * EffectiveDpr(d), 8))

\* if (canvas.width !== targetWidth || canvas.height !== targetHeight)
\* (faulty variant: the dimensions are assigned on every call)
NeedsResize_Always(w, h, tw, th) == TRUE
NeedsResize(w, h, tw, th) == w # tw \/ h # th

ResizeCanvas ==
  LET tw == TargetSize(displayW, dpr)
      th == TargetSize(displayH, dpr)
      write == NeedsResize(canvasW, canvasH, tw, th)
  IN /\ canvasW' = IF write THEN tw ELSE canvasW
     /\ canvasH' = IF write THEN th ELSE canvasH
     /\ preW' = canvasW
     /\ preH' = canvasH
     /\ wroteCanvas' = write
     /\ sinceResize' = TRUE
     /\ UNCHANGED <<displayW, displayH, dpr>>

(***************************************************************************)
(* fog-layer: the flow parameters, setFlow and the uniforms of draw.       *)
(* Every field value is a tuple: a pair for start/end, <<v>> for a number, *)
(* <<>> for undefined. speed and density are in hundredths.                *)
(***************************************************************************)
FogFields == {"start", "end", "height", "speed", "density", "feather"}

\* The default argument of createFogLayer, which initScene relies on.
DefaultFlow ==
  [start |-> <<0, 0>>, end |-> <<940, 0>>, height |-> <<260>>,
   speed |-> <<45>>, density |-> <<20>>, feather |-> <<300>>]

\* type FogFlow: the values a caller may give each field.
FogFlows ==
  {[start |-> a, end |-> b, height |-> c, speed |-> d, density |-> e, feather |-> f] :
     a \in {<<0, 0>>}, b \in {<<940, 0>>},
     c \in {<<260>>, <<120>>}, d \in {<<45>>, <<80>>, <<>>},
     e \in {<<20>>, <<60>>}, f \in {<<300>>, <<>>}}

\* Partial<FogFlow>: any subset of the fields, each with a value of its type.
FogPatches ==
  {[f \in D |-> full[f]] :
     full \in FogFlows, D \in {E \in SUBSET FogFields : Cardinality(E) <= MaxPatchFields}}

\* flow = { ...flow, ...next }
\* (faulty variant: the patch is merged into the defaults, not the current flow)
MergeFlow_Replace(flow, next) ==
  [f \in FogFields |-> IF f \in DOMAIN next THEN next[f] ELSE DefaultFlow[f]]
MergeFlow(flow, next) ==
  [f \in DOMAIN flow \cup DOMAIN next |-> IF f \in DOMAIN next THEN next[f] ELSE flow[f]]

\* a ?? b on a tuple-encoded optional number
OrElse(v, fallback) == IF v = <<>> THEN fallback ELSE v[1]

\* The uniforms uploaded by the fog layer's draw (fog-layer draw).
FogDrawUniforms(flow) ==
  [uStart |-> flow.start, uEnd |-> flow.end, uHeight |-> flow.height[1],
   uSpeed |-> OrElse(flow.speed, 45),
   uDensity |-> OrElse(flow.density, 35),
   uFeather |-> OrElse(flow.feather, flow.height[1] \div 2)]

NoUniforms == [uStart |-> <<>>, uEnd |-> <<>>, uHeight |-> 0,
               uSpeed |-> 0, uDensity |-> 0, uFeather |-> 0]

(***************************************************************************)
(* flying-layers.ts fragmentSource: the wind fragment shader, in exact     *)
(* fixed point.  Texture coordinates and rects are in eighths of the       *)
(* texture, feathers are 1 or 2 eighths, so that every smoothstep is a     *)
(* multiple of 1/64 and every rect mask a multiple of 1/MaskScale.  Angles *)
(* are whole quarter turns, where sin is 0, 1, 0, -1.                      *)
(***************************************************************************)
StepScale == 4 * 4 * 4
MaskScale == StepScale * StepScale * StepScale * StepScale

Clamp(x, lo, hi) == IF x < lo THEN lo ELSE IF x > hi THEN hi ELSE x

\* GLSL smoothstep(e0, e1, x), times StepScale.
SmoothStep(e0, e1, x) ==
  LET den == e1 - e0
      num == Clamp(x - e0, 0, den)
  IN (num * num * (3 * den - 2 * num) * StepScale) \div (den * den * den)

\* insideX (or insideY) of one rect along one axis, times StepScale^2.
Inside(lo, hi, feather, x) ==
  SmoothStep(lo - feather, lo + feather, x)
    * (StepScale - SmoothStep(hi - feather, hi + feather, x))

\* rectMask = insideX * insideY, times MaskScale.
RectMask(rect, uv) ==
  Inside(rect.x, rect.x + rect.w, rect.feather, uv[1])
    * Inside(rect.y, rect.y + rect.h, rect.feather, uv[2])

\* if (rectMask > 0.0001)
MaskCounts(mask) == mask > MaskScale \div 10000

\* sin of q quarter turns.
SinQ(q) == CASE q % 4 = 0 -> 0 [] q % 4 = 1 -> 1 [] q % 4 = 2 -> 0 [] q % 4 = 3 -> -1

\* vec2(swayX, swayY): the phase of swayX comes from the rect centre's y and
\* uFreq.x, that of swayY from the centre's x and uFreq.y plus a quarter turn.
\* A centre is (2 * pos + size) sixteenths; freq turns per texture.
Sway(rect, freq, t) ==
  <<SinQ(((2 * rect.y + rect.h) * freq[1]) \div 4 + t[1]),
    SinQ(((2 * rect.x + rect.w) * freq[2]) \div 4 + t[2] + 1)>>

\* vec2(swayX, swayY) * rectMask
Contribution(rect, uv, freq, t) ==
  LET m == RectMask(rect, uv)
      sw == Sway(rect, freq, t)
  IN <<sw[1] * m, sw[2] * m>>

\* offset += vec2(swayX, swayY) * rectMask
\* (faulty variant: offset = max(offset, contribution))
Accumulate_Max(offset, c) == <<Max(offset[1], c[1]), Max(offset[2], c[2])>>
Accumulate(offset, c) == <<offset[1] + c[1], offset[2] + c[2]>>

\* The shader's loop over the first uRectCount of its 8 rect slots.
RECURSIVE OffsetLoop(_, _, _, _, _, _)
OffsetLoop(rects, i, offset, uv, freq, t) ==
  IF i > Len(rects) \/ i > 8 THEN offset
  ELSE OffsetLoop(rects, i + 1,
                  IF MaskCounts(RectMask(rects[i], uv))
                    THEN Accumulate(offset, Contribution(rects[i], uv, freq, t))
                    ELSE offset,
                  uv, freq, t)

\* uv += offset * uAmp
\* (faulty variant: the offset is clamped to [-1, 1] first)
ApplyOffset_Clamped(uv, offset, amp) ==
  <<uv[1] * MaskScale + Clamp(offset[1], -MaskScale, MaskScale) * amp[1],
    uv[2] * MaskScale + Clamp(offset[2], -MaskScale, MaskScale) * amp[2]>>
ApplyOffset(uv, offset, amp) ==
  <<uv[1] * MaskScale + offset[1] * amp[1], uv[2] * MaskScale + offset[2] * amp[2]>>

\* main(): the offset and the sampled coordinate.  With uRectCount == 0 (and
\* the debug overlay off) the texture is sampled at vUv unchanged.
FragmentMain(rects, uv, amp, freq, t) ==
  IF Len(rects) = 0
    THEN [offset |-> <<0, 0>>, uv |-> <<uv[1] * MaskScale, uv[2] * MaskScale>>]
    ELSE LET offset == OffsetLoop(rects, 1, <<0, 0>>, uv, freq, t)
         IN [offset |-> offset, uv |-> ApplyOffset(uv, offset, amp)]

\* Rect uniforms the shader is run on: position and size in eighths.
ShaderRects ==
  {[x |-> 1, y |-> 1, w |-> 4, h |-> 4, feather |-> 1],
   [x |-> 3, y |-> 3, w |-> 4, h |-> 4, feather |-> 1],
   [x |-> 2, y |-> 0, w |-> 3, h |-> 6, feather |-> 2],
   [x |-> 6, y |-> 6, w |-> 1, h |-> 1, feather |-> 1]}

\* The rect lists of a sprite: up to MaxShaderRects distinct rects, in any order.
RectLists ==
  UNION {{s \in [1..n -> ShaderRects] : \A i, j \in 1..n : i # j => s[i] # s[j]} :
           n \in 0..MaxShaderRects}

Fragments == {<<x, y>> : x \in {1, 3, 4, 6}, y \in {2, 4, 5}}
TimePhases == {<<0, 0>>, <<1, 0>>, <<1, 3>>, <<2, 1>>}
Amplitudes == {<<1, 1>>, <<3, 2>>}
Frequencies == {<<4, 4>>, <<8, 4>>}

(***************************************************************************)
(* petal-particles: the per-instance attributes and the vertex shader's    *)
(* progress.  Positions along the path are in ProgressScale-ths.           *)
(***************************************************************************)
ProgressScale == 10 * 1000

\* flowSettings.speedRange = [0.035, 0.08], per second.
SpeedRange == <<350, 800>>
\* randRange(0, Math.PI * 2): the upper end of the seed range, 6.2831...
SeedRange == <<0, 62831>>

\* rand() is Math.random(), in [0, 1): here in thousandths.
Rands == {0, 100, 500, 999}

\* randRange(min, max) = min + rand() * (max - min)
RandRange(min, max, r) == min + (r * (max - min)) \div 1000

\* GLSL fract(x) = x - floor(x)
\* (faulty variant: one period is taken off, which is right for x < 2 only)
Fract_SinglePeriod(x) == IF x >= ProgressScale THEN x - ProgressScale ELSE x
Fract(x) == x - ProgressScale * (x \div ProgressScale)

\* progress = fract(uTime * aInstanceSpeed + aInstanceSeed)
Progress(t, speed, seed) == Fract(t * speed + seed)

\* createParticleGroup: the instance's speed and seed are drawn.
ParticleInstance(rs, rd) ==
  /\ aInstanceSpeed = RandRange(SpeedRange[1], SpeedRange[2], rs)
  /\ aInstanceSeed = RandRange(SeedRange[1], SeedRange[2], rd)
  /\ particleTime = 0
  /\ progress = 0
  /\ prevTime = 0
  /\ prevProgress = 0
  /\ particleRuns = 0

ParticlesIdle == ParticleInstance(0, 0)

\* Seconds between successive runs of the vertex shader on the instance.
ParticleSteps == {0, 1, 4}

\* The vertex shader runs on the instance with uTime = t.
ParticleVertex(t) ==
  /\ t <= MaxParticleTime
  /\ particleTime' = t
  /\ progress' = Progress(t, aInstanceSpeed, aInstanceSeed)
  /\ prevTime' = particleTime
  /\ prevProgress' = progress
  /\ particleRuns' = IF particleRuns < 2 THEN particleRuns + 1 ELSE 2
  /\ UNCHANGED <<aInstanceSpeed, aInstanceSeed, sceneVars, canvasVars, fogVars, shaderVars,
                 glVars, rectVars>>

(***************************************************************************)
(* gl.ts createShader and createProgram: the GL calls that create or       *)
(* delete an object, and the error thrown ("" when the call returns).      *)
(***************************************************************************)
GlCall(op, obj) == <<op, obj>>

\* What the context answers during one createProgram call: whether
\* gl.createProgram / gl.createShader return an object, and the compile and
\* link statuses.
GlAnswers == [program : BOOLEAN, vCreated : BOOLEAN, vCompiles : BOOLEAN,
              fCreated : BOOLEAN, fCompiles : BOOLEAN, links : BOOLEAN]

\* gl.ts:7-18 createShader
CreateShader(obj, created, compiles) ==
  IF ~created
    THEN [calls |-> <<>>, error |-> "Unable to create shader"]
    ELSE IF ~compiles
      THEN [calls |-> <<GlCall("create", obj), GlCall("delete", obj)>>,
            error |-> "compile log"]
      ELSE [calls |-> <<GlCall("create", obj)>>, error |-> ""]

\* gl.ts:28-29: the two shaders are deleted after linking.
\* (faulty variant: only the vertex shader is)
ReleaseShaders_VertexOnly == <<GlCall("delete", "vShader")>>
ReleaseShaders == <<GlCall("delete", "vShader"), GlCall("delete", "fShader")>>

\* gl.ts:20-36 createProgram
CreateProgram(a) ==
  IF ~a.program
    THEN [calls |-> <<>>, error |-> "Unable to create program"]
    ELSE
      LET created == <<GlCall("create", "program")>>
          v == CreateShader("vShader", a.vCreated, a.vCompiles)
          f == CreateShader("fShader", a.fCreated, a.fCompiles)
      IN IF v.error # ""
           THEN [calls |-> created \o v.calls, error |-> v.error]
           ELSE IF f.error # ""
             THEN [calls |-> created \o v.calls \o f.calls, error |-> f.error]
             ELSE
               LET linked == created \o v.calls \o f.calls \o ReleaseShaders
               IN IF ~a.links
                    THEN [calls |-> linked \o <<GlCall("delete", "program")>>,
                          error |-> "link log"]
                    ELSE [calls |-> linked, error |-> ""]

\* The objects a sequence of GL calls creates, deletes and leaves allocated.
Created(calls) == {c[2] : c \in {d \in Range(calls) : d[1] = "create"}}
Deleted(calls) == {c[2] : c \in {d \in Range(calls) : d[1] = "delete"}}
Allocated(calls) == Created(calls) \ Deleted(calls)

NoAnswers == [program |-> FALSE, vCreated |-> FALSE, vCompiles |-> FALSE,
              fCreated |-> FALSE, fCompiles |-> FALSE, links |-> FALSE]

GlIdle ==
  /\ glLive = {}
  /\ programCalls = 0
  /\ lastCall = [answers |-> NoAnswers, calls |-> <<>>, error |-> ""]

\* A layer constructor calls createProgram(gl, vs, fs).
CallCreateProgram(a) ==
  /\ programCalls < MaxProgramCalls
  /\ programCalls' = programCalls + 1
  /\ LET run == CreateProgram(a)
     IN /\ lastCall' = [answers |-> a, calls |-> run.calls, error |-> run.error]
        /\ glLive' = glLive \cup {<<programCalls + 1, obj>> : obj \in Allocated(run.calls)}
  /\ UNCHANGED <<sceneVars, canvasVars, fogVars, shaderVars, particleVars, rectVars>>

(***************************************************************************)
(* flying-layers.ts buildRectUniforms and the upload of the rect uniforms  *)
(* in draw.  Pixel rects become UV rects, in eighths of the texture.       *)
(***************************************************************************)
maxRects == 8

\* layer.rects ?? []
RectsOf(l) == IF l.rects = <<>> THEN <<>> ELSE l.rects[1]

\* rectCount = Math.min(rects.length, maxRects)
\* (faulty variant: the count is not clamped)
RectCountOf_Unclamped(n) == n
RectCountOf(n) == Min(n, maxRects)

\* rectX, rectY, rectW, rectH of one rect (flying-layers.ts:166-170)
RectToUv(rect, width, height) ==
  <<(rect.px[1] * 8) \div width,
    8 - ((rect.px[2] + rect.size[2]) * 8) \div height,
    (rect.size[1] * 8) \div width,
    (rect.size[2] * 8) \div height>>

\* Slot i (counted from 1) of rectData and of rectFeather.
RectSlot(l, rects, rectCount, i) ==
  IF i <= rectCount THEN RectToUv(rects[i], l.width, l.height) ELSE <<0, 0, 0, 0>>
FeatherSlot(rects, rectCount, i) ==
  IF i <= rectCount THEN rects[i].feather ELSE 0

\* flying-layers.ts:158-188 buildRectUniforms(layer)
BuildRectUniforms(l) ==
  LET rects == RectsOf(l)
      rectCount == RectCountOf(Len(rects))
  IN [l EXCEPT !.rectCount = <<rectCount>>,
               !.rectData = <<[i \in 1..maxRects |-> RectSlot(l, rects, rectCount, i)]>>,
               !.rectFeatherData = <<[i \in 1..maxRects |-> FeatherSlot(rects, rectCount, i)]>>]

\* The rects a sprite can be authored with: rect k of the catalogue, in pixels.
AuthoredRect(k) ==
  [px |-> <<20 * (k % 5), 10 * (k % 3)>>,
   size |-> <<20 * (1 + (k % 3)), 10 * (1 + (k % 2))>>,
   feather |-> 1 + (k % 2)]

AuthoredLists ==
  {<<>>} \cup {<<[i \in 1..n |-> AuthoredRect(i + k)]>> : n \in 0..MaxAuthoredRects, k \in 0..4}

\* A sprite as the ready callback creates it, before buildRectUniforms.
Sprites ==
  {[width |-> 160, height |-> h, rects |-> r,
    rectCount |-> <<>>, rectData |-> <<>>, rectFeatherData |-> <<>>] :
     h \in {40, 80}, r \in AuthoredLists}

RectsIdle ==
  /\ sprite = [width |-> 160, height |-> 80, rects |-> <<>>,
               rectCount |-> <<>>, rectData |-> <<>>, rectFeatherData |-> <<>>]
  /\ uRectCount = <<>>

\* layers.forEach(buildRectUniforms)
BuildSprite ==
  /\ sprite.rectCount = <<>>
  /\ sprite' = BuildRectUniforms(sprite)
  /\ UNCHANGED <<uRectCount, sceneVars, canvasVars, fogVars, shaderVars, particleVars, glVars>>

\* flying-layers.ts:295-300: draw uploads the sprite's rect uniforms; the
\* shader reads the first uRectCount of its eight array entries.
UploadRects ==
  /\ sprite.rectCount # <<>>
  /\ uRectCount = <<>>
  /\ LET rectCount == IF sprite.rectCount = <<>> THEN 0 ELSE sprite.rectCount[1]
         read == Min(rectCount, maxRects)
     IN /\ uRectCount' = <<rectCount>>
        /\ uRects' = IF sprite.rectData # <<>> /\ sprite.rectFeatherData # <<>>
                       THEN [i \in 1..read |->
                               [x |-> sprite.rectData[1][i][1], y |-> sprite.rectData[1][i][2],
                                w |-> sprite.rectData[1][i][3], h |-> sprite.rectData[1][i][4],
                                feather |-> sprite.rectFeatherData[1][i]]]
                       ELSE uRects
  /\ UNCHANGED <<sprite, uAmp, uFreq, fragUv, timeQ, shaded, fragOffset, sampleUv,
                 sceneVars, canvasVars, fogVars, particleVars, glVars>>

\* The helpers at rest.
HelpersIdle == ParticlesIdle /\ GlIdle /\ RectsIdle

(***************************************************************************)
(* The state after initScene has returned without throwing: every layer    *)
(* is constructed, the nine image loads are in flight, the resize listener *)
(* is registered, and no promise has settled.                              *)
(***************************************************************************)
SetupDone(answers) ==
  /\ setupAnswers = answers
  /\ performed = InitSceneRun(answers).performed
  /\ initError = InitSceneRun(answers).error

SceneLoading ==
  /\ promise = [p \in Promises |-> "pending"]
  /\ remaining = [a \in Aggregates |-> Len(AllInputs(a))]
  /\ mq = <<>>
  /\ windLayers = <<>>
  /\ pulseLayer = FALSE
  /\ particleGroups = 0
  /\ loopStarted = FALSE
  /\ rafPending = 0
  /\ clock = 0
  /\ lastFrameTime = 0
  /\ prevFrameTime = 0
  /\ framesAccepted = 0
  /\ frameOps = <<>>
  /\ renderRan = FALSE
  /\ drawsInvoked = {}
  /\ gpuDraws = {}
  /\ loaded = [t \in Textures |-> <<>>]
  /\ allValues = [a \in Aggregates |-> [i \in 1..Len(AllInputs(a)) |-> ""]]
  /\ windDrawn = <<>>
  /\ glProgram = "none"
  /\ displayW = 3840
  /\ displayH = 2160
  /\ dpr = 4
  /\ canvasW = 300
  /\ canvasH = 150
  /\ preW = 300
  /\ preH = 150
  /\ wroteCanvas = FALSE
  /\ sinceResize = FALSE
  /\ fogFlow = DefaultFlow
  /\ fogUniforms = NoUniforms
  /\ fragUv = <<0, 0>>
  /\ timeQ = <<0, 0>>
  /\ shaded = FALSE
  /\ fragOffset = <<0, 0>>
  /\ sampleUv = <<0, 0>>

SceneInit == SceneLoading /\ SetupDone(AllOk)

\* No sprite is bound to the wind shader yet.
ShaderUnbound ==
  /\ uRects = <<>>
  /\ uAmp = <<0, 0>>
  /\ uFreq = <<0, 0>>

Init ==
  /\ SceneInit
  /\ ShaderUnbound
  /\ HelpersIdle

\* The wind shader with the uniforms of some sprite bound.
InitShader ==
  /\ SceneInit
  /\ uRects \in RectLists
  /\ uAmp \in Amplitudes
  /\ uFreq \in Frequencies
  /\ HelpersIdle

\* initScene has run on a page where any of its fallible steps may fail.
InitSetup ==
  /\ SceneLoading
  /\ ShaderUnbound
  /\ HelpersIdle
  /\ \E answers \in SetupAnswers : SetupDone(answers)

\* Layers constructed on their own, without the orchestrator.
StandaloneLayers ==
  {<<"createWindLayer", "createPulseMaskLayer">>,
   <<"createPulseMaskLayer", "createSakuraLayer">>}

InitLayers ==
  /\ SceneLoading
  /\ ShaderUnbound
  /\ HelpersIdle
  /\ setupAnswers = AllOk
  /\ performed \in StandaloneLayers
  /\ initError = ""

\* A petal instance with generated speed and seed.
InitParticles ==
  /\ SceneInit
  /\ ShaderUnbound
  /\ \E rs \in Rands, rd \in Rands : ParticleInstance(rs, rd)
  /\ GlIdle
  /\ RectsIdle

\* A wind sprite as authored, its rect uniforms not yet built.
InitRects ==
  /\ SceneInit
  /\ ShaderUnbound
  /\ ParticlesIdle
  /\ GlIdle
  /\ sprite \in Sprites
  /\ uRectCount = <<>>

(***************************************************************************)
(* Macrotasks: image events (gl.ts loadTexture).  A macrotask runs only    *)
(* when the microtask queue is empty.                                      *)
(***************************************************************************)
\* image.onload: resolves with the texture, or rejects when gl.createTexture()
\* returns null.
\* (faulty variant: a null texture is not checked for)
LoadOutcome_Unchecked(texture) == "fulfilled"
LoadOutcome(texture) == IF texture THEN "fulfilled" ELSE "rejected"

\* The natural size of each image.
ImageSizes ==
  [t \in Textures |->
     IF t \in Range(WindTextures) THEN <<940, 529>>
     ELSE IF t \in Range(PulseTextures) THEN <<512, 256>>
     ELSE <<64, 48>>]

\* resolve({ texture, width: image.width, height: image.height }); the texture
\* created for a load is identified by the load.
LoadedTexture(t, texture) ==
  [texture |-> IF texture THEN t ELSE "null",
   width |-> ImageSizes[t][1], height |-> ImageSizes[t][2]]

OnLoad(t, texture) ==
  /\ mq = <<>>
  /\ t \in StartedLoads
  /\ promise[t] = "pending"
  /\ LET o == LoadOutcome(texture)
     IN /\ promise' = SettleP(promise, t, o)
        /\ mq' = SettleQ(promise, mq, t, o)
        /\ loaded' = IF o = "fulfilled"
                       THEN [loaded EXCEPT ![t] = <<LoadedTexture(t, texture)>>]
                       ELSE loaded
  /\ UNCHANGED <<allValues, remaining, windLayers, pulseLayer, particleGroups, loopStarted,
                 rafPending, clock, lastFrameTime, prevFrameTime, framesAccepted,
                 frameOps, renderRan, drawsInvoked, gpuDraws, gpuVars, setupVars,
                 canvasVars, fogVars, shaderVars, helperVars>>

ImageLoad(t) == \E texture \in BOOLEAN : OnLoad(t, texture)

\* image.onerror: rejects.
ImageError(t) ==
  /\ mq = <<>>
  /\ t \in StartedLoads
  /\ promise[t] = "pending"
  /\ promise' = SettleP(promise, t, "rejected")
  /\ mq' = SettleQ(promise, mq, t, "rejected")
  /\ UNCHANGED <<loaderVars, remaining, windLayers, pulseLayer, particleGroups, loopStarted,
                 rafPending, clock, lastFrameTime, prevFrameTime, framesAccepted,
                 frameOps, renderRan, drawsInvoked, gpuDraws, gpuVars, setupVars,
                 canvasVars, fogVars, shaderVars, helperVars>>

(***************************************************************************)
(* Microtasks: promise reaction jobs.                                      *)
(***************************************************************************)
\* Promise.all's reaction to one of its elements settling.
RunElemJob ==
  /\ mq # <<>>
  /\ Head(mq).kind = "elem"
  /\ LET a == Head(mq).target
         o == Head(mq).outcome
         left == IF ElementCounts(o) THEN remaining[a] - 1 ELSE remaining[a]
         result == IF ~ElementCounts(o) THEN "rejected"
                   ELSE IF left = 0 THEN "fulfilled" ELSE "pending"
     IN /\ remaining' = [remaining EXCEPT ![a] = left]
        /\ allValues' = IF ElementCounts(o)
                          THEN [allValues EXCEPT
                                  ![a] = StoreElement(@, Head(mq).index,
                                                      AllInputs(a)[Head(mq).index])]
                          ELSE allValues
        /\ IF result = "pending"
             THEN /\ promise' = promise
                  /\ mq' = Tail(mq)
             ELSE /\ promise' = SettleP(promise, a, result)
                  /\ mq' = SettleQ(promise, Tail(mq), a, result)
  /\ UNCHANGED <<loaded, windLayers, pulseLayer, particleGroups, loopStarted,
                 rafPending, clock, lastFrameTime, prevFrameTime, framesAccepted,
                 frameOps, renderRan, drawsInvoked, gpuDraws, gpuVars, setupVars,
                 canvasVars, fogVars, shaderVars, helperVars>>

\* A .then(callback) reaction to a rejected source: the callback is not run and
\* the rejection passes through to the derived promise.
RunThenRejected ==
  /\ mq # <<>>
  /\ Head(mq).kind = "then"
  /\ Head(mq).outcome = "rejected"
  /\ promise' = SettleP(promise, Head(mq).target, "rejected")
  /\ mq' = SettleQ(promise, Tail(mq), Head(mq).target, "rejected")
  /\ UNCHANGED <<loaderVars, remaining, windLayers, pulseLayer, particleGroups, loopStarted,
                 rafPending, clock, lastFrameTime, prevFrameTime, framesAccepted,
                 frameOps, renderRan, drawsInvoked, gpuDraws, gpuVars, setupVars,
                 canvasVars, fogVars, shaderVars, helperVars>>

\* The texture of a Promise.all value (undefined when there is none).
TextureOf(src) ==
  IF src \in DOMAIN loaded /\ loaded[src] # <<>> THEN loaded[src][1].texture ELSE "undefined"

\* flying-layers.ts:197-264: the values array is destructured as
\* [bridge, flying_1, flying_2, leaves] and the sprite list assigned in that order.
RunWindReady ==
  /\ mq # <<>>
  /\ Head(mq) = Job("then", "windReady", "fulfilled", 0)
  /\ windLayers' = [i \in 1..Len(WindTextures) |-> TextureOf(allValues["windAll"][i])]
  /\ promise' = SettleP(promise, "windReady", "fulfilled")
  /\ mq' = SettleQ(promise, Tail(mq), "windReady", "fulfilled")
  /\ UNCHANGED <<loaderVars, remaining, pulseLayer, particleGroups, loopStarted,
                 rafPending, clock, lastFrameTime, prevFrameTime, framesAccepted,
                 frameOps, renderRan, drawsInvoked, gpuDraws, gpuVars, setupVars,
                 canvasVars, fogVars, shaderVars, helperVars>>

\* pulse-mask.ts:97-105: the mask layer is assigned.
RunPulseReady ==
  /\ mq # <<>>
  /\ Head(mq) = Job("then", "pulseReady", "fulfilled", 0)
  /\ pulseLayer' = TRUE
  /\ promise' = SettleP(promise, "pulseReady", "fulfilled")
  /\ mq' = SettleQ(promise, Tail(mq), "pulseReady", "fulfilled")
  /\ UNCHANGED <<loaderVars, remaining, windLayers, particleGroups, loopStarted,
                 rafPending, clock, lastFrameTime, prevFrameTime, framesAccepted,
                 frameOps, renderRan, drawsInvoked, gpuDraws, gpuVars, setupVars,
                 canvasVars, fogVars, shaderVars, helperVars>>

\* petal-particles:243-250: the four batches are built and assigned; when
\* createParticleGroup throws (no vertex array or buffer) nothing is assigned
\* and ready rejects.
RunSakuraReady ==
  /\ mq # <<>>
  /\ Head(mq) = Job("then", "sakuraReady", "fulfilled", 0)
  /\ \E built \in BOOLEAN :
       LET o == IF built THEN "fulfilled" ELSE "rejected"
       IN /\ particleGroups' = IF built THEN Len(SakuraTextures) ELSE particleGroups
          /\ promise' = SettleP(promise, "sakuraReady", o)
          /\ mq' = SettleQ(promise, Tail(mq), "sakuraReady", o)
  /\ UNCHANGED <<loaderVars, remaining, windLayers, pulseLayer, loopStarted,
                 rafPending, clock, lastFrameTime, prevFrameTime, framesAccepted,
                 frameOps, renderRan, drawsInvoked, gpuDraws, gpuVars, setupVars,
                 canvasVars, fogVars, shaderVars, helperVars>>

\* scene.ts:43-70: the loop is set up and the first animation callback requested.
RunSceneStart ==
  /\ mq # <<>>
  /\ Head(mq) = Job("then", "sceneThen", "fulfilled", 0)
  /\ loopStarted' = TRUE
  /\ lastFrameTime' = 0
  /\ rafPending' = rafPending + 1
  /\ promise' = SettleP(promise, "sceneThen", "fulfilled")
  /\ mq' = SettleQ(promise, Tail(mq), "sceneThen", "fulfilled")
  /\ UNCHANGED <<loaderVars, remaining, windLayers, pulseLayer, particleGroups,
                 clock, prevFrameTime, framesAccepted,
                 frameOps, renderRan, drawsInvoked, gpuDraws, gpuVars, setupVars,
                 canvasVars, fogVars, shaderVars, helperVars>>

(***************************************************************************)
(* Macrotasks: the animation callback and the window resize listener.      *)
(***************************************************************************)
\* Gaps (ms) between the timestamps of successive animation callbacks.
Deltas == {0, 20, 41, 42}

\* scene.ts:47-67 render(now), the whole callback.
Render(now) ==
  /\ mq = <<>>
  /\ rafPending > 0
  /\ now <= MaxNow
  /\ LET ops == RenderOps(now, lastFrameTime)
         done == Range(ops)
         accepted == "lastFrameTime" \in done
     IN /\ clock' = now
        /\ frameOps' = ops
        /\ renderRan' = TRUE
        /\ lastFrameTime' = IF accepted THEN now ELSE lastFrameTime
        /\ prevFrameTime' = IF accepted THEN lastFrameTime ELSE prevFrameTime
        /\ framesAccepted' = IF accepted THEN Min(framesAccepted + 1, 2) ELSE framesAccepted
        /\ rafPending' = rafPending - 1 + Count("requestAnimationFrame", ops)
        /\ drawsInvoked' = drawsInvoked \cup (done \cap LayerDraws)
        /\ gpuDraws' = gpuDraws \cup {op \in done \cap LayerDraws : DrawGuard(op)}
        /\ glProgram' = ProgramAfter(ops, glProgram)
        /\ windDrawn' = IF "windLayer.draw" \in done /\ DrawGuard("windLayer.draw")
                          THEN WindDrawOrder(windLayers) ELSE windDrawn
        /\ fogUniforms' = IF "fogLayer.draw" \in done
                            THEN FogDrawUniforms(fogFlow) ELSE fogUniforms
        /\ IF "resizeCanvas" \in done THEN ResizeCanvas ELSE UNCHANGED canvasVars
  /\ UNCHANGED <<promise, remaining, mq, windLayers, pulseLayer, particleGroups,
                 loopStarted, loaderVars, setupVars, fogFlow, shaderVars, helperVars>>

\* scene.ts:84 window.addEventListener('resize', resizeCanvas)
ResizeEvent ==
  /\ mq = <<>>
  /\ Performed("addEventListener")
  /\ ResizeCanvas
  /\ UNCHANGED <<sceneVars, fogVars, shaderVars, helperVars>>

\* The layouts the page can take: display sizes in half CSS pixels and the
\* device pixel ratio in quarters (0: unset or zero).
DisplayWidths == {0, 1, 3, 601}
DisplayHeights == {0, 301}
PixelRatios == {0, 2, 5, 12}

\* The environment lays the canvas out anew or moves the window to another screen.
LayoutChange(w, h, d) ==
  /\ mq = <<>>
  /\ <<w, h, d>> # <<displayW, displayH, dpr>>
  /\ displayW' = w
  /\ displayH' = h
  /\ dpr' = d
  /\ sinceResize' = FALSE
  /\ UNCHANGED <<canvasW, canvasH, preW, preH, wroteCanvas, sceneVars, fogVars, shaderVars, helperVars>>

(***************************************************************************)
(* The draw entry point of a texture-backed layer, called directly.        *)
(***************************************************************************)
\* flying-layers.ts:268-304, pulse-mask.ts:108-133, petal-particles:254-273
LayerDraw(op) ==
  /\ mq = <<>>
  /\ Performed(LayerStep(op))
  /\ drawsInvoked' = drawsInvoked \cup {op}
  /\ gpuDraws' = IF DrawGuard(op) THEN gpuDraws \cup {op} ELSE gpuDraws
  /\ glProgram' = ProgramAfter(<<op>>, glProgram)
  /\ windDrawn' = IF op = "windLayer.draw" /\ DrawGuard(op)
                    THEN WindDrawOrder(windLayers) ELSE windDrawn
  /\ UNCHANGED <<promise, remaining, mq, windLayers, pulseLayer, particleGroups,
                 loopStarted, rafPending, clock, lastFrameTime, prevFrameTime,
                 framesAccepted, frameOps, renderRan, loaderVars, setupVars,
                 canvasVars, fogVars, shaderVars, helperVars>>

(***************************************************************************)
(* fog-layer: the renderer's two entry points.                             *)
(***************************************************************************)
SetFlow(next) ==
  /\ fogFlow' = MergeFlow(fogFlow, next)
  /\ UNCHANGED <<fogUniforms, sceneVars, canvasVars, shaderVars, helperVars>>

FogDraw ==
  /\ Performed("createFogLayer")
  /\ fogUniforms' = FogDrawUniforms(fogFlow)
  /\ drawsInvoked' = drawsInvoked \cup {"fogLayer.draw"}
  /\ gpuDraws' = gpuDraws \cup {"fogLayer.draw"}
  /\ glProgram' = "fogLayer.draw"
  /\ UNCHANGED <<windDrawn, loaderVars, setupVars, promise, remaining, mq, windLayers, pulseLayer, particleGroups,
                 loopStarted, rafPending, clock, lastFrameTime, prevFrameTime,
                 framesAccepted, frameOps, renderRan, fogFlow,
                 canvasVars, shaderVars, helperVars>>

(***************************************************************************)
(* flying-layers.ts: the GPU runs the fragment shader on one fragment.     *)
(***************************************************************************)
ShadeFragment(uv, t) ==
  /\ fragUv' = uv
  /\ timeQ' = t
  /\ shaded' = TRUE
  /\ fragOffset' = FragmentMain(uRects, uv, uAmp, uFreq, t).offset
  /\ sampleUv' = FragmentMain(uRects, uv, uAmp, uFreq, t).uv
  /\ UNCHANGED <<uRects, uAmp, uFreq, sceneVars, canvasVars, fogVars, helperVars>>

(***************************************************************************)
(* Specifications.                                                         *)
(***************************************************************************)
\* The scene: image events, promise reactions, animation callbacks and
\* resize events, under the initial layout.
Next ==
  \/ \E t \in Textures : ImageLoad(t)
  \/ \E t \in Textures : ImageError(t)
  \/ RunElemJob
  \/ RunThenRejected
  \/ RunWindReady
  \/ RunPulseReady
  \/ RunSakuraReady
  \/ RunSceneStart
  \/ \E d \in Deltas : Render(clock + d)
  \/ ResizeEvent

Spec == Init /\ [][Next]_vars

\* The scene after an initScene call that may have thrown.
SpecSetup == InitSetup /\ [][Next]_vars

\* Texture-backed layers on their own: image events, promise reactions and
\* draws called at any time.
NextLayers ==
  \/ \E t \in Textures : ImageLoad(t)
  \/ \E t \in Textures : ImageError(t)
  \/ RunElemJob
  \/ RunThenRejected
  \/ RunWindReady
  \/ RunPulseReady
  \/ RunSakuraReady
  \/ \E op \in TexturedDraws : LayerDraw(op)

SpecLayers == InitLayers /\ [][NextLayers]_vars

\* The canvas under layout changes and resize events.
NextCanvas ==
  \/ \E w \in DisplayWidths, h \in DisplayHeights, d \in PixelRatios : LayoutChange(w, h, d)
  \/ ResizeEvent

SpecCanvas == Init /\ [][NextCanvas]_vars

\* The fog renderer driven through setFlow and draw.
NextFog ==
  \/ \E next \in FogPatches : SetFlow(next)
  \/ FogDraw

SpecFog == Init /\ [][NextFog]_vars

\* The wind fragment shader applied to fragments of a sprite.
NextShader == \E uv \in Fragments, t \in TimePhases : ShadeFragment(uv, t)

SpecShader == InitShader /\ [][NextShader]_vars

\* The particle vertex shader run on one instance as time advances.
NextParticles == \E dt \in ParticleSteps : ParticleVertex(particleTime + dt)

SpecParticles == InitParticles /\ [][NextParticles]_vars

\* createProgram called on a context whose answers vary.
NextGl == \E a \in GlAnswers : CallCreateProgram(a)

SpecGl == Init /\ [][NextGl]_vars

\* A sprite's rect uniforms are built, then uploaded by a draw.
NextRects ==
  \/ BuildSprite
  \/ UploadRects

SpecRects == InitRects /\ [][NextRects]_vars

(***************************************************************************)
(* Properties of the scene orchestrator (checked under Spec).              *)
(***************************************************************************)
ReadySignals == {"windReady", "pulseReady", "sakuraReady"}

\* C1: no layer's draw is invoked and no animation callback is requested
\* before the readiness signals of the wind, pulse-mask and particle layers
\* have all resolved, whatever the order of the nine image loads.
C1_NoDrawOrCallbackBeforeReady ==
  (loopStarted \/ rafPending > 0 \/ renderRan \/ drawsInvoked # {} \/ gpuDraws # {})
    => \A r \in ReadySignals : promise[r] = "fulfilled"

\* The loop runs and every layer has drawn.
C1_Witness ==
  /\ loopStarted
  /\ drawsInvoked = LayerDraws
  /\ \A r \in ReadySignals : promise[r] = "fulfilled"

\* C2: while any one image load has failed or has not completed, the loop has
\* not started: no animation callback has been requested and no draw invoked,
\* however many of the other loads have succeeded.
C2_FailedLoadNeverStarts ==
  (\E t \in Textures : promise[t] # "fulfilled")
    => /\ ~loopStarted
       /\ rafPending = 0
       /\ ~renderRan
       /\ drawsInvoked = {}
       /\ gpuDraws = {}

\* One load has failed, the eight others have succeeded, and every reaction
\* has run: the scene's promise is rejected and nothing was started.
C2_Witness ==
  /\ mq = <<>>
  /\ \E t \in Textures :
       /\ promise[t] = "rejected"
       /\ \A u \in Textures \ {t} : promise[u] = "fulfilled"
  /\ promise["sceneThen"] = "rejected"
  /\ rafPending = 0

\* C3: the timestamps of two consecutive accepted frames differ by at least
\* 1000 / F ms.
C3_FramePacing ==
  framesAccepted = 2 => TargetFps * (lastFrameTime - prevFrameTime) >= 1000

\* Two consecutive accepted frames as close as the pacing allows on the ms grid.
C3_Witness ==
  /\ framesAccepted = 2
  /\ TargetFps * (lastFrameTime - prevFrameTime - 1) < 1000

\* C4: once the loop has started exactly one animation callback is pending
\* between invocations of render, and every invocation, accepted or skipped,
\* has requested exactly one further callback.
C4_OnePendingCallback ==
  loopStarted =>
    /\ rafPending = 1
    /\ renderRan => Count("requestAnimationFrame", frameOps) = 1

\* A skipped invocation after an accepted frame.
C4_Witness ==
  /\ framesAccepted >= 1
  /\ renderRan
  /\ "lastFrameTime" \notin Range(frameOps)
  /\ rafPending = 1

Position(x, s) == CHOOSE i \in DOMAIN s : s[i] = x

IsRounded(n, num) == 8 * n - 4 <= num /\ num < 8 * n + 4

\* C6, as stated: after resizeCanvas the canvas width and height equal
\* round(displaySize * min(devicePixelRatio, 2)), for a device pixel ratio
\* that is set.
C6_Original ==
  (sinceResize /\ dpr # 0) =>
    /\ IsRounded(canvasW, displayW * Min(dpr, 8))
    /\ IsRounded(canvasH, displayH * Min(dpr, 8))

\* The device pixel ratio resizeCanvas works with: 1 when unset or zero, and
\* never more than 2 (in quarters).
CappedRatio == IF dpr = 0 THEN 4 ELSE IF dpr > 8 THEN 8 ELSE dpr

\* C6, amended: after resizeCanvas the canvas width and height equal
\* max(1, round(displaySize * min(devicePixelRatio, 2))), where a device
\* pixel ratio that is unset or zero counts as 1.
C6_AtLeastOnePixel ==
  sinceResize =>
    /\ canvasW >= 1
    /\ canvasH >= 1
    /\ IF displayW * CappedRatio < 4 THEN canvasW = 1
       ELSE IsRounded(canvasW, displayW * CappedRatio)
    /\ IF displayH * CappedRatio < 4 THEN canvasH = 1
       ELSE IsRounded(canvasH, displayH * CappedRatio)

\* A 300.5 px wide, 0 px high canvas on a screen of pixel ratio 3: the ratio
\* is capped at 2 and the height is raised to 1.
C6_Witness ==
  /\ sinceResize
  /\ displayW = 601 /\ displayH = 0 /\ dpr = 12
  /\ canvasW = 601 /\ canvasH = 1

\* C7: resizeCanvas assigns the canvas dimensions exactly when a target
\* dimension differs from the current one; when both match it assigns
\* neither and the canvas is as it was.
C7_WriteOnlyWhenDifferent ==
  sinceResize =>
    /\ wroteCanvas <=> (preW # TargetSize(displayW, dpr) \/ preH # TargetSize(displayH, dpr))
    /\ ~wroteCanvas => (canvasW = preW /\ canvasH = preH)

\* A repeated call under an unchanged layout, after an earlier call resized.
C7_Witness ==
  /\ sinceResize
  /\ ~wroteCanvas
  /\ <<canvasW, canvasH>> # <<300, 150>>

(***************************************************************************)
(* Properties of the fog renderer (checked under SpecFog).                 *)
(***************************************************************************)
\* C8: a setFlow call overrides exactly the fields its patch provides and
\* leaves every other field of the current flow as it was, and a draw uploads
\* the current value of every field that is defined.
C8_PatchOverridesOnlyGiven ==
  [][/\ \A next \in FogPatches :
          SetFlow(next) =>
            \A f \in FogFields :
              fogFlow'[f] = IF f \in DOMAIN next THEN next[f] ELSE fogFlow[f]
     /\ FogDraw =>
          /\ fogUniforms'.uStart = fogFlow.start
          /\ fogUniforms'.uEnd = fogFlow.end
          /\ <<fogUniforms'.uHeight>> = fogFlow.height
          /\ fogFlow.speed # <<>> => <<fogUniforms'.uSpeed>> = fogFlow.speed
          /\ fogFlow.density # <<>> => <<fogUniforms'.uDensity>> = fogFlow.density
          /\ fogFlow.feather # <<>> => <<fogUniforms'.uFeather>> = fogFlow.feather
    ]_vars

\* After setFlow calls that changed height, speed and density and nothing
\* else, a draw has uploaded the patched values beside the untouched ones.
C8_Witness ==
  /\ fogFlow = [DefaultFlow EXCEPT !.height = <<120>>, !.speed = <<80>>,
                                   !.density = <<60>>]
  /\ fogUniforms = [uStart |-> <<0, 0>>, uEnd |-> <<940, 0>>, uHeight |-> 120,
                    uSpeed |-> 80, uDensity |-> 60, uFeather |-> 300]

(***************************************************************************)
(* Properties of the wind fragment shader (checked under SpecShader).      *)
(***************************************************************************)
\* The rects of the sprite the fragment lies inside (mask above the cut-off).
Covering == {i \in 1..Len(uRects) : MaskCounts(RectMask(uRects[i], fragUv))}

ContributionOf(i) == Contribution(uRects[i], fragUv, uFreq, timeQ)

RECURSIVE SumOf(_, _)
SumOf(S, k) ==
  IF S = {} THEN 0
  ELSE LET i == CHOOSE j \in S : TRUE IN ContributionOf(i)[k] + SumOf(S \ {i}, k)

RECURSIVE MaxOf(_, _)
MaxOf(S, k) ==
  LET i == CHOOSE j \in S : TRUE
  IN IF S = {i} THEN ContributionOf(i)[k]
     ELSE Max(ContributionOf(i)[k], MaxOf(S \ {i}, k))

C11_ProgressWraps ==
  particleRuns >= 1 =>
    /\ 0 <= progress
    /\ progress < ProgressScale
    /\ (aInstanceSpeed * particleTime + aInstanceSeed - progress) % ProgressScale = 0
    /\ particleRuns = 2 =>
         LET advance == aInstanceSpeed * (particleTime - prevTime)
         IN progress - prevProgress \in {advance, advance - ProgressScale}

\* An instance whose seed exceeds 6 has wrapped from near the end of the path
\* to its beginning.
C11_Witness ==
  /\ particleRuns = 2
  /\ aInstanceSeed >= 6 * ProgressScale
  /\ particleTime > prevTime
  /\ progress < prevProgress
  /\ prevProgress >= ProgressScale - aInstanceSpeed * (particleTime - prevTime)

(***************************************************************************)
(* Properties of createProgram (checked under SpecGl).                     *)
(***************************************************************************)
BothCompiled(a) == a.program /\ a.vCreated /\ a.vCompiles /\ a.fCreated /\ a.fCompiles

\* C12: once both shaders have compiled, createProgram deletes the two shader
\* objects whether linking succeeds or fails; when linking fails it deletes the
\* program as well and throws the linker log; it returns a program handle
\* only when linking succeeded.
C12_ShadersReleased ==
  programCalls > 0 =>
    /\ BothCompiled(lastCall.answers) =>
         /\ {"vShader", "fShader"} \subseteq Deleted(lastCall.calls)
         /\ \A obj \in {"vShader", "fShader"} : <<programCalls, obj>> \notin glLive
         /\ ~lastCall.answers.links =>
              /\ "program" \in Deleted(lastCall.calls)
              /\ <<programCalls, "program">> \notin glLive
              /\ lastCall.error = "link log"
    /\ lastCall.error = "" =>
         /\ BothCompiled(lastCall.answers)
         /\ lastCall.answers.links
         /\ <<programCalls, "program">> \in glLive

\* Both shaders compiled and linking failed: the call threw and left nothing.
C12_Witness ==
  /\ programCalls > 0
  /\ BothCompiled(lastCall.answers)
  /\ ~lastCall.answers.links
  /\ lastCall.error = "link log"
  /\ Allocated(lastCall.calls) = {}

\* C18: whenever createProgram throws, every shader object and the program
\* object created during that call have been deleted: a failed call leaves no
\* GPU object allocated.
C18_FailedCallLeavesNothing ==
  (programCalls > 0 /\ lastCall.error \in {"compile log", "link log"}) =>
    /\ Allocated(lastCall.calls) = {}
    /\ \A obj \in {"program", "vShader", "fShader"} : <<programCalls, obj>> \notin glLive

(***************************************************************************)
(* Properties of buildRectUniforms (checked under SpecRects).              *)
(***************************************************************************)
\* The slot holds the authored rect: its pixel position and size over the
\* sprite's size, the vertical position flipped.
SlotHolds(slot, fth, rect, width, height) ==
  /\ slot[1] * width = rect.px[1] * 8
  /\ (8 - slot[2]) * height = (rect.px[2] + rect.size[2]) * 8
  /\ slot[3] * width = rect.size[1] * 8
  /\ slot[4] * height = rect.size[2] * 8
  /\ fth = rect.feather

\* C17: for a sprite authored with n rects, buildRectUniforms sets rectCount
\* to min(n, 8), fills the first rectCount slots with the first rectCount
\* rects in authored order and zeroes the others; both arrays always have
\* eight entries, and the uniforms a draw uploads hold no rect beyond the
\* eighth.
C17_RectUniformsClamped ==
  sprite.rectCount # <<>> =>
    LET rects == IF sprite.rects = <<>> THEN <<>> ELSE sprite.rects[1]
        n == Len(rects)
        rectCount == sprite.rectCount[1]
        data == sprite.rectData[1]
        fth == sprite.rectFeatherData[1]
    IN /\ rectCount = IF n < 8 THEN n ELSE 8
       /\ Len(data) = 8
       /\ Len(fth) = 8
       /\ \A i \in 1..8 :
            IF i <= rectCount
              THEN SlotHolds(data[i], fth[i], rects[i], sprite.width, sprite.height)
              ELSE data[i] = <<0, 0, 0, 0>> /\ fth[i] = 0
       /\ uRectCount # <<>> =>
            /\ uRectCount[1] = rectCount
            /\ Len(uRects) = rectCount
            /\ \A i \in 1..Len(uRects) :
                 SlotHolds(<<uRects[i].x, uRects[i].y, uRects[i].w, uRects[i].h>>,
                           uRects[i].feather, rects[i], sprite.width, sprite.height)

\* A sprite authored with more than eight rects has been built and drawn.
C17_Witness ==
  /\ sprite.rects # <<>>
  /\ Len(sprite.rects[1]) > 8
  /\ sprite.rectCount = <<8>>
  /\ uRectCount = <<8>>
  /\ Len(uRects) = 8

(***************************************************************************)
(* Properties of loadTexture (checked under Spec).                         *)
(***************************************************************************)
\* C13: each loadTexture promise settles at most once and in exactly one way:
\* it resolves with the texture handle and the image's width and height when
\* the image loads and the texture is allocated, and rejects when the image
\* fails to load or the allocation fails; a settled load never changes again
\* (no retry), and settling one load changes no other load's result.
C13_SettlesOnceOneWay ==
  [][\A t \in Textures :
       /\ promise[t] # "pending" => promise'[t] = promise[t] /\ loaded'[t] = loaded[t]
       /\ OnLoad(t, TRUE) =>
            /\ promise'[t] = "fulfilled"
            /\ loaded'[t] = <<[texture |-> t, width |-> ImageSizes[t][1],
                               height |-> ImageSizes[t][2]]>>
       /\ OnLoad(t, FALSE) => promise'[t] = "rejected" /\ loaded'[t] = <<>>
       /\ ImageError(t) => promise'[t] = "rejected" /\ loaded'[t] = <<>>
       /\ (promise'[t] = "fulfilled") <=> (loaded'[t] # <<>>)
       /\ promise'[t] # promise[t] =>
            \A u \in Textures \ {t} : promise'[u] = promise[u] /\ loaded'[u] = loaded[u]
    ]_vars

\* One load has resolved with its texture and size, one has been rejected and
\* one is still pending.
C13_Witness ==
  /\ promise["bridge"] = "fulfilled"
  /\ loaded["bridge"] = <<[texture |-> "bridge", width |-> 940, height |-> 529]>>
  /\ promise["leaves"] = "rejected"
  /\ loaded["leaves"] = <<>>
  /\ promise["pulse_mask"] = "pending"

(***************************************************************************)
(* Properties of skipped frames (checked under Spec).                      *)
(***************************************************************************)
\* C15: a render callback that arrives less than 1000/F ms after the last
\* accepted frame only requests the next callback: it makes no resize check,
\* no viewport or clear call and no layer draw, and leaves lastFrameTime as it
\* was; so the first callback that arrives 1000/F ms or more after the last
\* accepted frame is accepted, however many were skipped in between.
C15_SkippedFrameIsInert ==
  [][\A d \in Deltas :
       Render(clock + d) =>
         IF TargetFps * (clock + d - lastFrameTime) < 1000
           THEN /\ frameOps' = <<"requestAnimationFrame">>
                /\ rafPending' = rafPending
                /\ UNCHANGED <<lastFrameTime, prevFrameTime, framesAccepted>>
                /\ UNCHANGED canvasVars
                /\ UNCHANGED <<drawsInvoked, gpuDraws, glProgram, windDrawn, fogUniforms>>
           ELSE lastFrameTime' = clock + d
    ]_vars

\* A callback was skipped 20 ms or more after an accepted frame, which stays
\* the last accepted one.
C15_Witness ==
  /\ framesAccepted >= 1
  /\ frameOps = <<"requestAnimationFrame">>
  /\ lastFrameTime > 0
  /\ clock >= lastFrameTime + 20
  /\ TargetFps * (clock - lastFrameTime) < 1000

(***************************************************************************)
(* Properties of the wind sprite list (checked under Spec).                *)
(***************************************************************************)
\* C16: the wind sprite list is either empty or complete: it stays empty
\* until all four wind textures have loaded and then holds bridge, flying-1,
\* flying-2, leaves in that order, whatever the order in which the loads
\* completed; a draw that renders sprites renders them in that order.
C16_WindListEmptyOrComplete ==
  /\ windLayers \in {<<>>, <<"bridge", "flying-1", "flying-2", "leaves">>}
  /\ (\E t \in {"bridge", "flying-1", "flying-2", "leaves"} : promise[t] # "fulfilled")
       => windLayers = <<>>
  /\ windDrawn \in {<<>>, <<"bridge", "flying-1", "flying-2", "leaves">>}
  /\ "windLayer.draw" \in gpuDraws
       => windDrawn = <<"bridge", "flying-1", "flying-2", "leaves">>

\* The four sprites are in the list and a draw has rendered them.
C16_Witness ==
  /\ Len(windLayers) = 4
  /\ windLayers[1] = "bridge"
  /\ windLayers[4] = "leaves"
  /\ windDrawn = windLayers
  /\ "windLayer.draw" \in gpuDraws

(***************************************************************************)
(* Properties of setup failures (checked under SpecSetup).                 *)
(***************************************************************************)
\* C14: when the root element is absent, the context is unavailable or a
\* layer constructor throws, initScene throws, and from then on no animation
\* callback is requested, no draw is invoked, the canvas is never resized and
\* no resize listener is registered.
C14_SetupFailureIsHardStop ==
  (\E step \in DOMAIN setupAnswers : ~setupAnswers[step]) =>
    /\ initError # ""
    /\ "addEventListener" \notin Range(performed)
    /\ "Promise.all" \notin Range(performed)
    /\ ~loopStarted
    /\ rafPending = 0
    /\ ~renderRan
    /\ drawsInvoked = {}
    /\ gpuDraws = {}
    /\ glProgram = "none"
    /\ ~wroteCanvas
    /\ ~sinceResize

\* The fog layer's constructor threw after the wind layer had started its
\* loads: the wind layer became ready and still nothing was started.
C14_Witness ==
  /\ setupAnswers["createFogLayer"] = FALSE
  /\ performed = <<"querySelector", "canvas", "getContext", "createWindLayer">>
  /\ initError = "layer constructor error"
  /\ promise["windReady"] = "fulfilled"
  /\ promise["sceneAll"] = "pending"
  /\ rafPending = 0

(***************************************************************************)
(* Properties of the layers' draw guards (checked under SpecLayers).       *)
(***************************************************************************)
OwnTextures(op) ==
  CASE op = "windLayer.draw" -> {"bridge", "flying-1", "flying-2", "leaves"}
    [] op = "pulseMaskLayer.draw" -> {"pulse_mask"}
    [] op = "sakuraLayer.draw" -> {"petal-1", "petal-2", "petal-3", "petal-4"}

\* C19: while any of a texture-backed layer's own loads has not completed or
\* has failed, that layer's draw, whenever it is called, has issued no GPU
\* draw call and has changed no GPU state, whatever the other layers do.
C19_DrawGuardedUntilLoaded ==
  \A op \in {"windLayer.draw", "pulseMaskLayer.draw", "sakuraLayer.draw"} :
    (\E t \in OwnTextures(op) : promise[t] # "fulfilled") =>
      /\ op \notin gpuDraws
      /\ glProgram # op
      /\ op = "windLayer.draw" => windDrawn = <<>>

\* The wind layer was drawn after one of its loads failed, while the pulse
\* mask, whose texture had loaded, drew.
C19_Witness ==
  /\ "windLayer.draw" \in drawsInvoked
  /\ promise["bridge"] = "rejected"
  /\ promise["leaves"] = "fulfilled"
  /\ "windLayer.draw" \notin gpuDraws
  /\ "pulseMaskLayer.draw" \in gpuDraws
  /\ glProgram = "pulseMaskLayer.draw"

====
